---- MODULE Spec2Model ----
(***************************************************************************)
(* Model of bird_finder_backend.py: a Flask application over a SQLite      *)
(* store (users, lost birds, found birds, sighting reports) and an upload  *)
(* directory.  Every route handler is an action; the register handler is   *)
(* split at its two database operations (the lookup and the commit)        *)
(* because the development server runs handlers of different requests in   *)
(* different threads.                                                      *)
(*                                                                         *)
(* A JSON value that may be absent or null is a sequence of length at most *)
(* one: <<>> is Python's None, <<v>> is the value v.  Text that the code   *)
(* only compares for equality is a TLA+ string; text that the code         *)
(* searches or splits is a sequence of one-character strings.              *)
(***************************************************************************)
EXTENDS Integers, Sequences, FiniteSets, TLC

VARIABLES
    foreign_keys,   \* whether the SQLite build enforces FOREIGN KEY clauses
    users,          \* rows of table user
    lost_birds,     \* rows of table lost_bird
    found_birds,    \* rows of table found_bird
    sightings,      \* rows of table sighting_report
    uploads,        \* files in app.config['UPLOAD_FOLDER']
    now,            \* datetime.utcnow(), in ticks
    reg,            \* per thread: the register request between lookup and commit
    registered,     \* the 201 responses register has returned
    response,       \* the response of the request that completed last
    scan            \* the pages a client has collected from GET /api/lost-birds

vars == <<foreign_keys, users, lost_birds, found_birds, sightings, uploads,
          now, reg, registered, response, scan>>

None == <<>>
Some(v) == <<v>>

\* Python truthiness of a JSON string-or-null, as `not data.get(field)` tests it.
TruthyStr(x) == x # None /\ x[1] # ""
\* Python truthiness of a JSON number-or-null.
TruthyNum(x) == x # None /\ x[1] # 0
\* Python truthiness of a JSON text-or-null (text as a sequence of characters).
TruthyText(x) == x # None /\ x[1] # <<>>

Maximum(S) == CHOOSE m \in S : \A x \in S : x <= m

Minimum(S) == CHOOSE m \in S : \A x \in S : m <= x

\* The id SQLite gives the next row of an INTEGER PRIMARY KEY table.
NextId(rows) == IF rows = {} THEN 1 ELSE Maximum({r.id : r \in rows}) + 1

NoResponse == [op |-> "none", code |-> 0, error |-> ""]

\* A set of request bodies, counted once so that TLC holds the set and its
\* records in normal form before its workers share them.
Bodies(S) == IF Cardinality(S) >= 0 THEN S ELSE {}

----------------------------------------------------------------------------
(* Authentication routes *)

Threads == {"t1", "t2"}
Emails == {"ann@x", "bob@x"}
Passwords == {"pw1", "pw2"}
Salts == {"s1"}

RegisterData ==
    [email    : {None} \cup {Some(e) : e \in Emails},
     password : {None, Some("")} \cup {Some(p) : p \in Passwords},
     name     : {None, Some(""), Some("Ann")},
     phone    : {None, Some("081")}]

LoginData ==
    [email    : {None} \cup {Some(e) : e \in Emails},
     password : {None, Some("")} \cup {Some(p) : p \in Passwords}]

\* werkzeug's salted one-way hash, as an uninterpreted collision-free term.
HashInternal(salt, password) == <<"H", salt, password>>

\* generate_password_hash: "method$salt$hash" with the salt drawn at random.
GeneratePasswordHash(salt, password) ==
    [salt |-> salt, hashval |-> HashInternal(salt, password)]

\* check_password_hash raises on a password that is not a string
\* (None has no encode()); the caller turns the exception into a 500.
CheckPasswordHashRaises(password) == password = None

CheckPasswordHash(pwhash, password) ==
    HashInternal(pwhash.salt, password[1]) = pwhash.hashval

\* User.query.filter_by(email=...).first()
UserByEmail(email) == {u \in users : Some(u.email) = email}

\* The first required field whose value is falsy, or "" when all are given.
MissingRegister(data) ==
    IF ~TruthyStr(data.email) THEN "email"
    ELSE IF ~TruthyStr(data.password) THEN "password"
    ELSE IF ~TruthyStr(data.name) THEN "name"
    ELSE ""

\* Whether a row of table user holds this email (a fact of the store, which
\* the response records for the request it answers).
Stored(email) == \E u \in users : Some(u.email) = email

RegisterResponse(data, existed, code, error, user_id) ==
    [op |-> "register", data |-> data, existed |-> existed, code |-> code,
     error |-> error, user_id |-> user_id]

EmailRegisteredNever(data) == FALSE

\* register, line 157: User.query.filter_by(email=data['email']).first()
EmailRegistered(data) == UserByEmail(data.email) # {}

\* register, lines 148-158: validation and the lookup of the email.
RegisterLookup(t, data) ==
    /\ reg[t] = None
    /\ IF MissingRegister(data) # ""
       THEN /\ response' = RegisterResponse(data, Stored(data.email), 400,
                               MissingRegister(data) \o " is required", None)
            /\ reg' = reg
       ELSE IF EmailRegistered(data)
       THEN /\ response' = RegisterResponse(data, Stored(data.email), 400,
                               "Email already registered", None)
            /\ reg' = reg
       ELSE /\ reg' = [reg EXCEPT ![t] =
                          Some([data |-> data, existed |-> Stored(data.email)])]
            /\ response' = response
    /\ UNCHANGED <<foreign_keys, users, lost_birds, found_birds, sightings,
                   uploads, now, registered, scan>>

\* register, lines 160-177: the insert and its commit.  The UNIQUE constraint
\* on user.email makes the commit raise IntegrityError, which the handler's
\* except clause reports as a 500.
RegisterCommit(t) ==
    /\ reg[t] # None
    /\ LET data == reg[t][1].data
           existed == reg[t][1].existed
       IN
       IF Stored(data.email)
       THEN /\ response' = RegisterResponse(data, existed, 500, "IntegrityError", None)
            /\ UNCHANGED <<users, registered>>
       ELSE \E salt \in Salts :
            LET user == [id            |-> NextId(users),
                         email         |-> data.email[1],
                         password_hash |-> GeneratePasswordHash(salt, data.password[1]),
                         name          |-> data.name[1],
                         phone         |-> IF data.phone = None THEN "" ELSE data.phone[1]]
            IN /\ users' = users \cup {user}
               /\ response' = RegisterResponse(data, existed, 201, "", Some(user.id))
               /\ registered' = registered \cup
                      {[email |-> user.email, password |-> data.password[1],
                        user_id |-> user.id]}
    /\ reg' = [reg EXCEPT ![t] = None]
    /\ UNCHANGED <<foreign_keys, lost_birds, found_birds, sightings, uploads,
                   now, scan>>

\* login, lines 179-195.
Login(data) ==
    /\ LET found == UserByEmail(data.email) IN
       IF found = {}
       THEN response' = [op |-> "login", data |-> data, code |-> 401,
                         error |-> "Invalid credentials", user_id |-> None]
       ELSE LET user == CHOOSE u \in found : TRUE IN
            IF CheckPasswordHashRaises(data.password)
            THEN response' = [op |-> "login", data |-> data, code |-> 500,
                              error |-> "AttributeError", user_id |-> None]
            ELSE IF CheckPasswordHash(user.password_hash, data.password)
            THEN response' = [op |-> "login", data |-> data, code |-> 200,
                              error |-> "", user_id |-> Some(user.id)]
            ELSE response' = [op |-> "login", data |-> data, code |-> 401,
                              error |-> "Invalid credentials", user_id |-> None]
    /\ UNCHANGED <<foreign_keys, users, lost_birds, found_birds, sightings,
                   uploads, now, reg, registered, scan>>

----------------------------------------------------------------------------
(* Text and dates *)

Digits == {"0", "1", "2", "3", "4", "5", "6", "7", "8", "9"}

DigitValue(c) ==
    CASE c = "0" -> 0 [] c = "1" -> 1 [] c = "2" -> 2 [] c = "3" -> 3
      [] c = "4" -> 4 [] c = "5" -> 5 [] c = "6" -> 6 [] c = "7" -> 7
      [] c = "8" -> 8 [] c = "9" -> 9

\* str.replace(old, new) for a one-character old.
RECURSIVE Replace(_, _, _)
Replace(s, old, new) ==
    IF s = <<>> THEN <<>>
    ELSE (IF Head(s) = old THEN new ELSE <<Head(s)>>) \o Replace(Tail(s), old, new)

AllDigits(s) == \A i \in 1..Len(s) : s[i] \in Digits

RECURSIVE Number(_)
Number(s) ==
    IF s = <<>> THEN 0 ELSE 10 * Number(SubSeq(s, 1, Len(s) - 1)) + DigitValue(s[Len(s)])

\* YYYY-MM-DD
ParseDate(s) ==
    /\ Len(s) = 10
    /\ s[5] = "-" /\ s[8] = "-"
    /\ AllDigits(SubSeq(s, 1, 4)) /\ AllDigits(SubSeq(s, 6, 7)) /\ AllDigits(SubSeq(s, 9, 10))
    /\ Number(SubSeq(s, 1, 4)) >= 1
    /\ Number(SubSeq(s, 6, 7)) \in 1..12
    /\ Number(SubSeq(s, 9, 10)) \in 1..31

\* HH:MM:SS
ParseTime(s) ==
    /\ Len(s) = 8
    /\ s[3] = ":" /\ s[6] = ":"
    /\ AllDigits(SubSeq(s, 1, 2)) /\ AllDigits(SubSeq(s, 4, 5)) /\ AllDigits(SubSeq(s, 7, 8))
    /\ Number(SubSeq(s, 1, 2)) \in 0..23
    /\ Number(SubSeq(s, 4, 5)) \in 0..59
    /\ Number(SubSeq(s, 7, 8)) \in 0..59

\* +HH:MM or -HH:MM
ParseOffset(s) ==
    /\ Len(s) = 6
    /\ s[1] \in {"+", "-"}
    /\ s[4] = ":"
    /\ AllDigits(SubSeq(s, 2, 3)) /\ AllDigits(SubSeq(s, 5, 6))
    /\ Number(SubSeq(s, 2, 3)) \in 0..23
    /\ Number(SubSeq(s, 5, 6)) \in 0..59

\* datetime.fromisoformat on the forms date, date + separator + time, and
\* date + separator + time + offset; None stands for the ValueError it raises
\* on anything else.  The value is the text it parsed.
FromIsoFormat(s) ==
    IF \/ ParseDate(s)
       \/ Len(s) = 19 /\ ParseDate(SubSeq(s, 1, 10)) /\ ParseTime(SubSeq(s, 12, 19))
       \/ /\ Len(s) = 25 /\ ParseDate(SubSeq(s, 1, 10)) /\ ParseTime(SubSeq(s, 12, 19))
          /\ ParseOffset(SubSeq(s, 20, 25))
    THEN Some(s)
    ELSE None

\* datetime.fromisoformat(data[field].replace('Z', '+00:00'))
ParseField(value) == FromIsoFormat(Replace(value, "Z", <<"+", "0", "0", ":", "0", "0">>))

DateUtc == <<"2","0","2","4","-","0","5","-","0","1","T","1","0",":","3","0",":","0","0","Z">>
DateOnly == <<"2","0","2","4","-","0","5","-","0","1">>
DateBadMonth == <<"2","0","2","4","-","1","3","-","0","1">>
DateWords == <<"s","o","o","n">>

Lower(c) ==
    CASE c = "K" -> "k" [] c = "I" -> "i" [] c = "W" -> "w" [] c = "P" -> "p"
      [] c = "O" -> "o" [] c = "L" -> "l" [] c = "Y" -> "y" [] c = "A" -> "a"
      [] c = "R" -> "r" [] OTHER -> c

\* SQLite's LIKE: % matches any run of characters, _ any one character, and
\* letters match without regard to case.
RECURSIVE Like(_, _)
Like(pattern, s) ==
    IF pattern = <<>> THEN s = <<>>
    ELSE IF Head(pattern) = "%"
    THEN Like(Tail(pattern), s) \/ (s # <<>> /\ Like(pattern, Tail(s)))
    ELSE /\ s # <<>>
         /\ (Head(pattern) = "_" \/ Lower(Head(pattern)) = Lower(Head(s)))
         /\ Like(Tail(pattern), Tail(s))

\* column.contains(search): column LIKE '%' || search || '%'
Contains(column, search) == Like(<<"%">> \o search \o <<"%">>, column)

Kiwi == <<"K", "i", "w", "i">>
Polly == <<"P", "o", "l", "l", "y">>
Green == <<"g", "r", "e", "e", "n">>
Park == <<"P", "a", "r", "k">>

----------------------------------------------------------------------------
(* Lost birds, found birds and sighting reports *)

MaxBirds == 2
MaxFound == 1
MaxSightings == 2
MaxTime == 1

\* dict.get(key): None when the key is absent.
Get(data, key) == IF key \in DOMAIN data THEN data[key] ELSE None

\* dict.get(key, default)
GetDefault(data, key, default) == IF key \in DOMAIN data THEN data[key] ELSE default

\* The row register stores for its first request.
AnnRow ==
    [id |-> 1, email |-> "ann@x",
     password_hash |-> GeneratePasswordHash("s1", "pw1"),
     name |-> "Ann", phone |-> ""]

UserExists(user_id) == \E u \in users : u.id = user_id

LostBirdExists(bird_id) == \E b \in lost_birds : b.id = bird_id

LostBirdValid ==
    [user_id |-> Some(1), name |-> Some(Kiwi), description |-> Some(Green),
     last_seen_location |-> Some(Park), lost_date |-> Some(DateUtc),
     last_seen_lat |-> Some(1), last_seen_lng |-> Some(1)]

\* Request bodies of POST /api/lost-birds.
LostBirdData ==
    Bodies(
      { LostBirdValid,
        [LostBirdValid EXCEPT !.name = Some(Polly), !.last_seen_lat = Some(0)],
        [LostBirdValid EXCEPT !.user_id = Some(2), !.last_seen_lng = Some(0)],
        [LostBirdValid EXCEPT !.last_seen_lat = None, !.last_seen_lng = None,
                              !.lost_date = Some(DateOnly)],
        [LostBirdValid EXCEPT !.user_id = Some(0)],
        [LostBirdValid EXCEPT !.name = None],
        [LostBirdValid EXCEPT !.description = Some(<<>>)],
        [LostBirdValid EXCEPT !.last_seen_location = None],
        [LostBirdValid EXCEPT !.lost_date = None],
        [LostBirdValid EXCEPT !.lost_date = Some(DateWords)],
        [LostBirdValid EXCEPT !.lost_date = Some(DateBadMonth)] })

\* create_lost_bird, lines 204-207: the first required field that is falsy.
MissingLostBird(data) ==
    IF ~TruthyNum(data.user_id) THEN "user_id"
    ELSE IF ~TruthyText(data.name) THEN "name"
    ELSE IF ~TruthyText(data.description) THEN "description"
    ELSE IF ~TruthyText(data.last_seen_location) THEN "last_seen_location"
    ELSE IF ~TruthyText(data.lost_date) THEN "lost_date"
    ELSE ""

LostBirdStatusFromPayload(data) ==
    IF "status" \in DOMAIN data /\ data.status # None THEN data.status[1] ELSE "lost"

\* LostBird.status, line 72, and the constructor call of lines 212-225, which
\* passes no status: the column default is stored, whatever the body holds.
LostBirdStatus(data) == "lost"

\* create_lost_bird, lines 198-236.  species_id, characteristics, photos,
\* contact_info and reward_amount are copied to the row and read by no
\* condition; the model leaves them out of the row.
CreateLostBird(data) ==
    /\ Cardinality(lost_birds) < MaxBirds
    /\ IF MissingLostBird(data) # ""
       THEN /\ response' = [op |-> "create_lost_bird", data |-> data, code |-> 400,
                            error |-> MissingLostBird(data) \o " is required", id |-> None]
            /\ UNCHANGED lost_birds
       ELSE IF ParseField(data.lost_date[1]) = None
       THEN /\ response' = [op |-> "create_lost_bird", data |-> data, code |-> 500,
                            error |-> "ValueError", id |-> None]
            /\ UNCHANGED lost_birds
       ELSE IF foreign_keys /\ ~UserExists(data.user_id[1])
       THEN /\ response' = [op |-> "create_lost_bird", data |-> data, code |-> 500,
                            error |-> "IntegrityError", id |-> None]
            /\ UNCHANGED lost_birds
       ELSE LET lost_bird ==
                    [id                 |-> NextId(lost_birds),
                     user_id            |-> data.user_id[1],
                     name               |-> data.name[1],
                     description        |-> data.description[1],
                     last_seen_location |-> data.last_seen_location[1],
                     last_seen_lat      |-> data.last_seen_lat,
                     last_seen_lng      |-> data.last_seen_lng,
                     lost_date          |-> ParseField(data.lost_date[1])[1],
                     status             |-> LostBirdStatus(data),
                     created_at         |-> now]
            IN /\ lost_birds' = lost_birds \cup {lost_bird}
               /\ response' = [op |-> "create_lost_bird", data |-> data, code |-> 201,
                               error |-> "", id |-> Some(lost_bird.id)]
    /\ UNCHANGED <<foreign_keys, users, found_birds, sightings, uploads, now,
                   reg, registered, scan>>

FoundBirdValid ==
    [user_id |-> Some(1), description |-> Some(Green),
     found_location |-> Some(Park), found_date |-> Some(DateOnly)]

\* Request bodies of POST /api/found-birds.
FoundBirdData ==
    Bodies(
      { FoundBirdValid,
        [FoundBirdValid EXCEPT !.found_location = None],
        [FoundBirdValid EXCEPT !.found_date = Some(DateWords)] })

\* create_found_bird, lines 374-377.
MissingFoundBird(data) ==
    IF ~TruthyNum(data.user_id) THEN "user_id"
    ELSE IF ~TruthyText(data.description) THEN "description"
    ELSE IF ~TruthyText(data.found_location) THEN "found_location"
    ELSE IF ~TruthyText(data.found_date) THEN "found_date"
    ELSE ""

\* create_found_bird, lines 369-403.
CreateFoundBird(data) ==
    /\ Cardinality(found_birds) < MaxFound
    /\ IF MissingFoundBird(data) # ""
       THEN /\ response' = [op |-> "create_found_bird", data |-> data, code |-> 400,
                            error |-> MissingFoundBird(data) \o " is required", id |-> None]
            /\ UNCHANGED found_birds
       ELSE IF ParseField(data.found_date[1]) = None
       THEN /\ response' = [op |-> "create_found_bird", data |-> data, code |-> 500,
                            error |-> "ValueError", id |-> None]
            /\ UNCHANGED found_birds
       ELSE IF foreign_keys /\ ~UserExists(data.user_id[1])
       THEN /\ response' = [op |-> "create_found_bird", data |-> data, code |-> 500,
                            error |-> "IntegrityError", id |-> None]
            /\ UNCHANGED found_birds
       ELSE LET found_bird ==
                    [id             |-> NextId(found_birds),
                     user_id        |-> data.user_id[1],
                     description    |-> data.description[1],
                     found_location |-> data.found_location[1],
                     found_date     |-> ParseField(data.found_date[1])[1],
                     status         |-> "found",
                     created_at     |-> now]
            IN /\ found_birds' = found_birds \cup {found_bird}
               /\ response' = [op |-> "create_found_bird", data |-> data, code |-> 201,
                               error |-> "", id |-> Some(found_bird.id)]
    /\ UNCHANGED <<foreign_keys, users, lost_birds, sightings, uploads, now,
                   reg, registered, scan>>

SightingValid ==
    [lost_bird_id |-> Some(1), user_id |-> Some(1), location |-> Some(Park),
     sighting_date |-> Some(DateUtc)]

\* Request bodies of POST /api/sightings; confidence_level is a key of some.
SightingData ==
    Bodies(
      { SightingValid,
        [SightingValid EXCEPT !.lost_bird_id = Some(3)],
        [SightingValid EXCEPT !.lost_bird_id = Some(0)],
        [SightingValid EXCEPT !.sighting_date = Some(DateWords)],
        [lost_bird_id |-> Some(2), user_id |-> Some(2), location |-> Some(Park),
         sighting_date |-> Some(DateOnly), confidence_level |-> Some(7)] })

\* create_sighting, lines 455-458.
MissingSighting(data) ==
    IF ~TruthyNum(data.lost_bird_id) THEN "lost_bird_id"
    ELSE IF ~TruthyNum(data.user_id) THEN "user_id"
    ELSE IF ~TruthyText(data.location) THEN "location"
    ELSE IF ~TruthyText(data.sighting_date) THEN "sighting_date"
    ELSE ""

SightingResponse(data, code, error, id) ==
    [op |-> "create_sighting", data |-> data, code |-> code, error |-> error,
     id |-> id,
     bird_existed |-> data.lost_bird_id # None /\ LostBirdExists(data.lost_bird_id[1])]

\* create_sighting, lines 450-483.  The handler does not look the lost bird
\* up; only the storage engine, when it enforces foreign keys, rejects the row.
CreateSighting(data) ==
    /\ Cardinality(sightings) < MaxSightings
    /\ IF MissingSighting(data) # ""
       THEN /\ response' = SightingResponse(data, 400,
                               MissingSighting(data) \o " is required", None)
            /\ UNCHANGED sightings
       ELSE IF ParseField(data.sighting_date[1]) = None
       THEN /\ response' = SightingResponse(data, 500, "ValueError", None)
            /\ UNCHANGED sightings
       ELSE IF foreign_keys /\ ~(LostBirdExists(data.lost_bird_id[1])
                                 /\ UserExists(data.user_id[1]))
       THEN /\ response' = SightingResponse(data, 500, "IntegrityError", None)
            /\ UNCHANGED sightings
       ELSE LET sighting ==
                    [id               |-> NextId(sightings),
                     lost_bird_id     |-> data.lost_bird_id[1],
                     user_id          |-> data.user_id[1],
                     location         |-> data.location[1],
                     sighting_date    |-> ParseField(data.sighting_date[1])[1],
                     confidence_level |-> GetDefault(data, "confidence_level", Some(5)),
                     verified         |-> FALSE,
                     created_at       |-> now]
            IN /\ sightings' = sightings \cup {sighting}
               /\ response' = SightingResponse(data, 201, "", Some(sighting.id))
    /\ UNCHANGED <<foreign_keys, users, lost_birds, found_birds, uploads, now,
                   reg, registered, scan>>

BirdIds == 1..(MaxBirds + 1)

\* get_lost_bird, lines 315-366.  get_or_404 raises NotFound inside the try
\* block, and `except Exception` answers it with a 500; bird.owner and
\* s.reporter are None when the row they name does not exist.
GetLostBird(bird_id) ==
    /\ LET found == {b \in lost_birds : b.id = bird_id} IN
       IF found = {}
       THEN response' = [op |-> "get_lost_bird", bird_id |-> bird_id, code |-> 500,
                         error |-> "404 Not Found", bird |-> None]
       ELSE LET bird == CHOOSE b \in found : TRUE
                seen == {s \in sightings : s.lost_bird_id = bird.id}
            IN IF ~UserExists(bird.user_id) \/ \E s \in seen : ~UserExists(s.user_id)
               THEN response' = [op |-> "get_lost_bird", bird_id |-> bird_id,
                                 code |-> 500, error |-> "AttributeError", bird |-> None]
               ELSE response' = [op |-> "get_lost_bird", bird_id |-> bird_id,
                                 code |-> 200, error |-> "",
                                 bird |-> Some([id |-> bird.id, name |-> bird.name,
                                                status |-> bird.status,
                                                owner |-> bird.user_id,
                                                sightings |-> {s.id : s \in seen}])]
    /\ UNCHANGED <<foreign_keys, users, lost_birds, found_birds, sightings,
                   uploads, now, reg, registered, scan>>

timedelta_days == 30

\* round(x, 2) of x = 100 * numerator / denominator, in hundredths (to even).
Round2(numerator, denominator) ==
    LET q == (10000 * numerator) \div denominator
        r == (10000 * numerator) % denominator
    IN IF 2 * r > denominator \/ (2 * r = denominator /\ q % 2 = 1) THEN q + 1 ELSE q

SuccessRateUnguarded(total_reunited, total_lost) ==
    IF total_lost = 0 THEN None ELSE Some(Round2(total_reunited, total_lost))

\* get_statistics, line 563; None stands for ZeroDivisionError.
SuccessRate(total_reunited, total_lost) ==
    LET denominator == IF total_lost > 1 THEN total_lost ELSE 1
    IN IF denominator = 0 THEN None ELSE Some(Round2(total_reunited, denominator))

\* get_statistics, lines 539-567.  One tick of the clock is a day.
GetStatistics ==
    /\ LET total_lost == Cardinality(lost_birds)
           total_found == Cardinality(found_birds)
           total_reunited == Cardinality({b \in lost_birds : b.status = "reunited"})
           total_sightings == Cardinality(sightings)
           recent_lost == Cardinality({b \in lost_birds :
                                          b.created_at >= now - timedelta_days})
           recent_found == Cardinality({b \in found_birds :
                                           b.created_at >= now - timedelta_days})
           success_rate == SuccessRate(total_reunited, total_lost)
       IN IF success_rate = None
          THEN response' = [op |-> "get_statistics", code |-> 500,
                            error |-> "ZeroDivisionError"]
          ELSE response' = [op |-> "get_statistics", code |-> 200, error |-> "",
                            total_lost |-> total_lost, total_found |-> total_found,
                            total_reunited |-> total_reunited,
                            total_sightings |-> total_sightings,
                            recent_lost |-> recent_lost, recent_found |-> recent_found,
                            success_rate |-> success_rate[1]]
    /\ UNCHANGED <<foreign_keys, users, lost_birds, found_birds, sightings,
                   uploads, now, reg, registered, scan>>

\* datetime.utcnow() moves on between two requests, or does not.
Tick ==
    /\ now < MaxTime
    /\ now' = now + 1
    /\ UNCHANGED <<foreign_keys, users, lost_birds, found_birds, sightings,
                   uploads, reg, registered, response, scan>>

----------------------------------------------------------------------------
(* GET /api/lost-birds *)

DefaultPage == 1
DefaultPerPage == 20
DefaultRadius == 50
KmPerDegree == 111

GeoArgs ==
    [lat    : {None, Some(0), Some(1)},
     lng    : {None, Some(0), Some(1)},
     radius : {None, Some(111)}]

ListFilter(status, search, geo) ==
    [status |-> status, search |-> search,
     lat |-> geo.lat, lng |-> geo.lng, radius |-> geo.radius]

NoGeo == [lat |-> None, lng |-> None, radius |-> None]

\* Query strings of GET /api/lost-birds: the filters.
ListFilters ==
    Bodies(
      {ListFilter(None, None, geo) : geo \in GeoArgs}
      \cup {ListFilter(status, search, geo) :
                status \in {None, Some("found")},
                search \in {None, Some(<<"k", "i">>)},
                geo \in {NoGeo, [lat |-> Some(1), lng |-> Some(1), radius |-> Some(0 - 111)]}})

\* Query strings of GET /api/lost-birds: the page wanted.
ListPages == [page : {None, Some(0), Some(2)}, per_page : {None, Some(1)}]

ListArgs(filter, paging) ==
    [status |-> filter.status, search |-> filter.search, lat |-> filter.lat,
     lng |-> filter.lng, radius |-> filter.radius,
     page |-> paging.page, per_page |-> paging.per_page]

Abs(x) == IF x < 0 THEN 0 - x ELSE x

GeoFilterAppliesIfGiven(lat, lng) == lat # None /\ lng # None

\* get_lost_birds, line 261: `if lat and lng`
GeoFilterApplies(lat, lng) == TruthyNum(lat) /\ TruthyNum(lng)

\* get_lost_birds, line 264: the division raises when abs(lat) is 0.
LngRangeRaises(lat) == KmPerDegree * Abs(lat) = 0

\* column.between(centre - radius / divisor, centre + radius / divisor) with
\* divisor > 0, each comparison multiplied through by the divisor; a NULL
\* column is not between anything.
Between(column, centre, radius, divisor) ==
    /\ column # None
    /\ (centre - column[1]) * divisor <= radius
    /\ (column[1] - centre) * divisor <= radius

\* get_lost_birds, lines 245-269: the rows the filters select.
Query(args) ==
    LET status == IF args.status = None THEN "lost" ELSE args.status[1]
        radius == IF args.radius = None THEN DefaultRadius ELSE args.radius[1]
        by_status == {b \in lost_birds : b.status = status}
        by_search ==
            IF TruthyText(args.search)
            THEN {b \in by_status :
                     \/ Contains(b.name, args.search[1])
                     \/ Contains(b.description, args.search[1])
                     \/ Contains(b.last_seen_location, args.search[1])}
            ELSE by_status
    IN IF GeoFilterApplies(args.lat, args.lng)
       THEN {b \in by_search :
                /\ Between(b.last_seen_lat, args.lat[1], radius, KmPerDegree)
                /\ Between(b.last_seen_lng, args.lng[1], radius,
                           KmPerDegree * Abs(args.lat[1]))}
       ELSE by_search

\* The orders ORDER BY created_at DESC allows: rows of equal created_at come
\* in an order the engine chooses anew for every statement.
Orderings(rows) ==
    {order \in [1..Cardinality(rows) -> rows] :
        /\ \A i, j \in DOMAIN order : i # j => order[i] # order[j]
        /\ \A i, j \in DOMAIN order : i < j => order[i].created_at >= order[j].created_at}

\* paginate(page, per_page, error_out=False): the values it works with.
EffectivePage(args) ==
    IF args.page = None THEN DefaultPage
    ELSE IF args.page[1] < 1 THEN 1 ELSE args.page[1]

EffectivePerPage(args) ==
    IF args.per_page = None THEN DefaultPerPage
    ELSE IF args.per_page[1] < 1 THEN DefaultPerPage ELSE args.per_page[1]

Min(a, b) == IF a < b THEN a ELSE b

\* LIMIT per_page OFFSET (page - 1) * per_page
PageItems(order, page, per_page) ==
    SubSeq(order, (page - 1) * per_page + 1, Min(page * per_page, Len(order)))

\* Pagination.pages: ceil(total / per_page), 0 when there is no row.
PageCount(total, per_page) == (total + per_page - 1) \div per_page

\* get_lost_birds, lines 238-313.  bird.owner is None when the user row the
\* bird names does not exist, and reading its name raises.
GetLostBirds(args) ==
    /\ IF GeoFilterApplies(args.lat, args.lng) /\ LngRangeRaises(args.lat[1])
       THEN response' = [op |-> "get_lost_birds", args |-> args, code |-> 500,
                         error |-> "ZeroDivisionError", query |-> {}, birds |-> <<>>]
       ELSE LET query == Query(args) IN
            \E order \in Orderings(query) :
            LET page == EffectivePage(args)
                per_page == EffectivePerPage(args)
                items == PageItems(order, page, per_page)
                total == Cardinality(query)
                pages == PageCount(total, per_page)
            IN IF \E i \in DOMAIN items : ~UserExists(items[i].user_id)
               THEN response' = [op |-> "get_lost_birds", args |-> args, code |-> 500,
                                 error |-> "AttributeError",
                                 query |-> {b.id : b \in query}, birds |-> <<>>]
               ELSE response' = [op |-> "get_lost_birds", args |-> args, code |-> 200,
                                 error |-> "",
                                 query |-> {b.id : b \in query},
                                 birds |-> [i \in DOMAIN items |-> items[i].id],
                                 page |-> IF args.page = None THEN DefaultPage
                                          ELSE args.page[1],
                                 pages |-> pages, total |-> total,
                                 has_next |-> page < pages, has_prev |-> page > 1]
    /\ UNCHANGED <<foreign_keys, users, lost_birds, found_birds, sightings,
                   uploads, now, reg, registered>>

\* One request, by a client that does not page.
GetLostBirdsOnce(args) == GetLostBirds(args) /\ UNCHANGED scan

\* What a request asks for besides the page number.
Listing(args) == [args EXCEPT !.page = None]

\* A client that pages through a listing: page 1 starts a collection, the
\* page after the last one collected extends it while the store is the one
\* page 1 was read from, and any other request abandons it.
GetLostBirdsPaging(args) ==
    /\ GetLostBirds(args)
    /\ scan' =
         IF EffectivePage(args) = 1
         THEN Some([listing |-> Listing(args), store |-> lost_birds,
                    responses |-> <<response'>>])
         ELSE IF /\ scan # None
                 /\ scan[1].listing = Listing(args)
                 /\ scan[1].store = lost_birds
                 /\ EffectivePage(args) = Len(scan[1].responses) + 1
         THEN Some([scan[1] EXCEPT !.responses = Append(@, response')])
         ELSE None

----------------------------------------------------------------------------
(* POST /api/upload *)

MaxUploads == 2

ALLOWED_EXTENSIONS ==
    {<<"p", "n", "g">>, <<"j", "p", "g">>, <<"j", "p", "e", "g">>, <<"g", "i", "f">>}

\* str.lower() on the letters the file names here are written with.
LowerName(s) ==
    [i \in DOMAIN s |->
        CASE s[i] = "P" -> "p" [] s[i] = "N" -> "n" [] s[i] = "G" -> "g"
          [] s[i] = "E" -> "e" [] s[i] = "X" -> "x" [] OTHER -> s[i]]

Dots(s) == {i \in DOMAIN s : s[i] = "."}

\* filename.split('.')[1]: what lies between the first dot and the next.
SecondPart(s) ==
    LET first == Minimum(Dots(s))
        later == {i \in Dots(s) : i > first}
    IN SubSeq(s, first + 1, IF later = {} THEN Len(s) ELSE Minimum(later) - 1)

\* filename.rsplit('.', 1)[1]: what follows the last dot.
AfterLastDot(s) == SubSeq(s, Maximum(Dots(s)) + 1, Len(s))

AllowedFileSecondPart(filename) ==
    Dots(filename) # {} /\ LowerName(SecondPart(filename)) \in ALLOWED_EXTENSIONS

\* allowed_file, lines 125-127.
AllowedFile(filename) ==
    Dots(filename) # {} /\ LowerName(AfterLastDot(filename)) \in ALLOWED_EXTENSIONS

SafeChars ==
    {"a", "e", "g", "i", "n", "o", "p", "s", "t", "u", "v", "x", "r", "h",
     "P", "N", "G", "E", "X", ".", "_", "-"}

RECURSIVE StripLeft(_)
StripLeft(s) ==
    IF s # <<>> /\ Head(s) \in {".", "_"} THEN StripLeft(Tail(s)) ELSE s

RECURSIVE StripRight(_)
StripRight(s) ==
    IF s # <<>> /\ s[Len(s)] \in {".", "_"}
    THEN StripRight(SubSeq(s, 1, Len(s) - 1)) ELSE s

\* werkzeug's secure_filename on names without white space: path separators
\* become "_", characters outside [A-Za-z0-9_.-] are dropped, and leading and
\* trailing dots and underscores are stripped.
SecureFilename(filename) ==
    LET joined == [i \in DOMAIN filename |->
                      IF filename[i] = "/" THEN "_" ELSE filename[i]]
        kept == SelectSeq(joined, LAMBDA c : c \in SafeChars)
    IN StripRight(StripLeft(kept))

PhotoPng == <<"p", "h", "o", "t", "o", ".", "p", "n", "g">>
PhotoUpper == <<"p", ".", "P", "N", "G">>
VirusExe == <<"v", "i", "r", "u", "s", ".", "e", "x", "e">>
PngExe == <<"a", ".", "p", "n", "g", ".", "e", "x", "e">>
ExePng == <<"a", ".", "e", "x", "e", ".", "p", "n", "g">>
NoExtension == <<"p", "n", "g">>
TrailingDot == <<"p", "n", "g", ".">>
PathGif == <<".", ".", "/", "x", ".", "g", "i", "f">>

FileNames ==
    {<<>>, PhotoPng, PhotoUpper, VirusExe, PngExe, ExePng, NoExtension,
     TrailingDot, PathGif}

\* request.files: no part named 'file', or a part with a name and bytes that
\* are an image or are not.
UploadRequests ==
    Bodies(
      {None} \cup {Some([filename |-> f, image |-> i]) : f \in FileNames, i \in BOOLEAN})

\* save_uploaded_file, lines 129-136: the name of the file written, or None.
\* uuid4() is a name no earlier upload has.
SaveUploadedFile(file) ==
    IF AllowedFile(file.filename)
    THEN Some([uuid |-> Cardinality(uploads) + 1,
               filename |-> SecureFilename(file.filename)])
    ELSE None

\* upload_file, lines 486-510.  resize_image raises on bytes that are no
\* image, after the file was written.
UploadFile(request) ==
    /\ Cardinality(uploads) < MaxUploads
    /\ IF request = None
       THEN /\ response' = [op |-> "upload_file", request |-> request, code |-> 400,
                            error |-> "No file provided", filename |-> None]
            /\ UNCHANGED uploads
       ELSE IF request[1].filename = <<>>
       THEN /\ response' = [op |-> "upload_file", request |-> request, code |-> 400,
                            error |-> "No file selected", filename |-> None]
            /\ UNCHANGED uploads
       ELSE LET filename == SaveUploadedFile(request[1]) IN
            IF filename = None
            THEN /\ response' = [op |-> "upload_file", request |-> request,
                                 code |-> 400, error |-> "Invalid file type",
                                 filename |-> None]
                 /\ UNCHANGED uploads
            ELSE IF ~request[1].image
            THEN /\ uploads' = uploads \cup {[name |-> filename[1], resized |-> FALSE]}
                 /\ response' = [op |-> "upload_file", request |-> request,
                                 code |-> 500, error |-> "UnidentifiedImageError",
                                 filename |-> None]
            ELSE /\ uploads' = uploads \cup {[name |-> filename[1], resized |-> TRUE]}
                 /\ response' = [op |-> "upload_file", request |-> request,
                                 code |-> 200, error |-> "", filename |-> filename]
    /\ UNCHANGED <<foreign_keys, users, lost_birds, found_birds, sightings, now,
                   reg, registered, scan>>

\* uploaded_file, lines 512-515: send_from_directory answers 404 for a name
\* that is no file of the directory.
UploadedFile(name) ==
    /\ response' = [op |-> "uploaded_file", name |-> name,
                    code |-> IF \E f \in uploads : f.name = name THEN 200 ELSE 404,
                    error |-> ""]
    /\ UNCHANGED <<foreign_keys, users, lost_birds, found_birds, sightings,
                   uploads, now, reg, registered, scan>>

----------------------------------------------------------------------------
Init ==
    /\ foreign_keys \in BOOLEAN
    /\ users = {}
    /\ lost_birds = {}
    /\ found_birds = {}
    /\ sightings = {}
    /\ uploads = {}
    /\ now = 0
    /\ reg = [t \in Threads |-> None]
    /\ registered = {}
    /\ response = NoResponse
    /\ scan = None

\* Table user has no foreign key and the upload directory is no table, so the
\* authentication and upload routes are explored under one setting of the flag.
InitEmpty == Init /\ ~foreign_keys

NextAuth ==
    \/ \E t \in Threads, data \in RegisterData : RegisterLookup(t, data)
    \/ \E t \in Threads : RegisterCommit(t)
    \/ \E data \in LoginData : Login(data)

SpecAuth == InitEmpty /\ [][NextAuth]_vars

\* The routes over birds and sightings start from a store that holds the
\* user of a first registration.
InitBirds ==
    /\ foreign_keys \in BOOLEAN
    /\ users = {AnnRow}
    /\ lost_birds = {}
    /\ found_birds = {}
    /\ sightings = {}
    /\ uploads = {}
    /\ now = 0
    /\ reg = [t \in Threads |-> None]
    /\ registered = {}
    /\ response = NoResponse
    /\ scan = None

NextBirds ==
    \/ \E data \in LostBirdData : CreateLostBird(data)
    \/ \E data \in FoundBirdData : CreateFoundBird(data)
    \/ \E data \in SightingData : CreateSighting(data)
    \/ \E bird_id \in BirdIds : GetLostBird(bird_id)

SpecBirds == InitBirds /\ [][NextBirds]_vars

\* The statistics count rows and read nothing else of them: one body that
\* is stored and one that is rejected, for each table.
LostBirdDataStats == Bodies({LostBirdValid, [LostBirdValid EXCEPT !.name = None]})

SightingDataStats == Bodies({SightingValid, [SightingValid EXCEPT !.location = None]})

NextStats ==
    \/ \E data \in LostBirdDataStats : CreateLostBird(data)
    \/ \E data \in FoundBirdData : CreateFoundBird(data)
    \/ \E data \in SightingDataStats : CreateSighting(data)
    \/ GetStatistics
    \/ Tick

SpecStats == InitBirds /\ [][NextStats]_vars

FirstPage == [page |-> None, per_page |-> None]

\* The requests for the first page of every filtered listing.
ListRequests == Bodies({ListArgs(filter, FirstPage) : filter \in ListFilters})

NextList ==
    \/ \E data \in LostBirdData : CreateLostBird(data)
    \/ \E args \in ListRequests : GetLostBirdsOnce(args)

SpecList == InitBirds /\ [][NextList]_vars

\* Paging is followed over birds whose owner exists.
LostBirdDataPaging ==
    Bodies({LostBirdValid, [LostBirdValid EXCEPT !.name = Some(Polly)]})

ListFiltersPaging == Bodies({f \in ListFilters : f.lat = None})

\* The requests for any page of a listing without a position filter.
PagingRequests ==
    Bodies({ListArgs(filter, paging) : filter \in ListFiltersPaging, paging \in ListPages})

NextPaging ==
    \/ \E data \in LostBirdDataPaging : CreateLostBird(data)
    \/ Tick
    \/ \E args \in PagingRequests : GetLostBirdsPaging(args)

SpecPaging == InitBirds /\ [][NextPaging]_vars

NextUpload ==
    \/ \E request \in UploadRequests : UploadFile(request)
    \/ \E name \in {f.name : f \in uploads} \cup {[uuid |-> 0, filename |-> PhotoPng]} :
          UploadedFile(name)

SpecUpload == InitEmpty /\ [][NextUpload]_vars

\* A body of POST /api/lost-birds that carries a status key.
LostBirdWithStatus(status) ==
    [user_id |-> Some(1), name |-> Some(Kiwi), description |-> Some(Green),
     last_seen_location |-> Some(Park), lost_date |-> Some(DateUtc),
     last_seen_lat |-> Some(1), last_seen_lng |-> Some(1), status |-> status]

\* Bodies with a status of the column's comment, with one outside it, with a
\* null one and with none, and a body that is rejected.
LostBirdDataStatus ==
    Bodies(
      { LostBirdValid,
        [LostBirdValid EXCEPT !.name = None],
        LostBirdWithStatus(None),
        LostBirdWithStatus(Some("lost")),
        LostBirdWithStatus(Some("found")),
        LostBirdWithStatus(Some("reunited")),
        LostBirdWithStatus(Some("sold")) })

\* Listings by status, without search or position.
ListRequestsStatus ==
    Bodies({args \in ListRequests :
               args.search = None /\ args.lat = None /\ args.lng = None})

\* Every route that reads or writes table lost_bird, and the sightings that
\* refer to its rows.
NextStatus ==
    \/ \E data \in LostBirdDataStatus : CreateLostBird(data)
    \/ \E data \in SightingDataStats : CreateSighting(data)
    \/ \E bird_id \in BirdIds : GetLostBird(bird_id)
    \/ \E args \in ListRequestsStatus : GetLostBirdsOnce(args)
    \/ GetStatistics

SpecStatus == InitBirds /\ [][NextStatus]_vars

\* A body of POST /api/sightings that carries a confidence_level key.
SightingWithConfidence(level) ==
    [lost_bird_id |-> Some(1), user_id |-> Some(1), location |-> Some(Park),
     sighting_date |-> Some(DateUtc), confidence_level |-> level]

\* Bodies without the key, with a level on the scale, with levels off it and
\* with a null level, and a body that is rejected.
SightingDataConfidence ==
    Bodies(
      { SightingValid,
        [SightingValid EXCEPT !.location = None],
        SightingWithConfidence(Some(7)),
        SightingWithConfidence(Some(0)),
        SightingWithConfidence(Some(11)),
        SightingWithConfidence(Some(0 - 1)),
        SightingWithConfidence(None) })

NextConfidence ==
    \/ \E data \in LostBirdDataStats : CreateLostBird(data)
    \/ \E data \in SightingDataConfidence : CreateSighting(data)
    \/ \E bird_id \in BirdIds : GetLostBird(bird_id)

SpecConfidence == InitBirds /\ [][NextConfidence]_vars

----------------------------------------------------------------------------
(* Claims about the authentication routes, checked under SpecAuth *)

ConflictError == "Email already registered"

\* C1 as stated: a register request whose email is already stored is answered
\* 400 'Email already registered', whatever its other fields hold.
C1_AlwaysConflict ==
    (response.op = "register" /\ response.existed) =>
        (response.code = 400 /\ response.error = ConflictError)

C1_RejectedInv ==
    (response.op = "register" /\ response.existed) =>
        /\ response.code = 400
        /\ response.user_id = None
        /\ response.error =
              IF ~TruthyStr(response.data.password) THEN "password is required"
              ELSE IF ~TruthyStr(response.data.name) THEN "name is required"
              ELSE ConflictError

C1_RowAdded ==
    users' # users =>
        /\ response'.op = "register"
        /\ response'.code = 201
        /\ ~response'.existed

\* C1 amended: a register request whose email is already stored is answered
\* 400 and adds no user row; the error is 'Email already registered' when
\* password and name are both non-empty, and otherwise names the first of
\* password, name that is empty or missing.
C1_Rejected == []C1_RejectedInv /\ [][C1_RowAdded]_vars

\* A stored email is registered again with password and name given, and with
\* the password missing.
C1_Witness ==
    /\ response.op = "register"
    /\ response.existed
    /\ response.code = 400
    /\ response.error = ConflictError
    /\ response.data.phone # None

\* C2: a login with the email and password of a successful registration is
\* answered 200 with that registration's user_id, and every other login is
\* answered 401.
C2_LoginOutcome ==
    response.op = "login" =>
        LET same == {r \in registered :
                        /\ Some(r.email) = response.data.email
                        /\ Some(r.password) = response.data.password}
        IN IF same # {}
           THEN /\ response.code = 200
                /\ \A r \in same : response.user_id = Some(r.user_id)
           ELSE response.code = 401

\* C10: no two user rows share an email, no email is registered with success
\* twice, and a register request is never answered 500.
C10_ConcurrentRegister ==
    /\ \A u, v \in users : u.email = v.email => u = v
    /\ \A r, q \in registered : r.email = q.email => r = q
    /\ response.op = "register" => response.code \in {201, 400}

----------------------------------------------------------------------------
(* Claims about birds and sightings, checked under SpecBirds *)

\* C3: a sighting request that passes validation and names a lost bird that
\* does not exist is answered 404, and every stored sighting names a stored
\* lost bird.
C3_SightingNeedsBird ==
    /\ ( /\ response.op = "create_sighting"
         /\ MissingSighting(response.data) = ""
         /\ ParseField(response.data.sighting_date[1]) # None
         /\ ~response.bird_existed )
       => (response.code = 404 /\ response.id = None)
    /\ \A s \in sightings : \E b \in lost_birds : b.id = s.lost_bird_id

\* C4: GET /api/lost-birds/<id> is answered 404 when no lost bird has the id
\* and 200 with the bird of that id when one has.
C4_GetLostBird ==
    response.op = "get_lost_bird" =>
        IF \E b \in lost_birds : b.id = response.bird_id
        THEN /\ response.code = 200
             /\ response.bird # None
             /\ response.bird[1].id = response.bird_id
        ELSE response.code = 404

\* C9: a create request with every required field given and a date that does
\* not parse is answered 400 and stores no row, for lost birds, found birds
\* and sightings alike.
C9_BadDate ==
    /\ ( /\ response.op = "create_lost_bird"
         /\ MissingLostBird(response.data) = ""
         /\ FromIsoFormat(Replace(response.data.lost_date[1], "Z",
                                  <<"+", "0", "0", ":", "0", "0">>)) = None )
       => (response.code = 400 /\ response.id = None)
    /\ ( /\ response.op = "create_found_bird"
         /\ MissingFoundBird(response.data) = ""
         /\ FromIsoFormat(Replace(response.data.found_date[1], "Z",
                                  <<"+", "0", "0", ":", "0", "0">>)) = None )
       => (response.code = 400 /\ response.id = None)
    /\ ( /\ response.op = "create_sighting"
         /\ MissingSighting(response.data) = ""
         /\ FromIsoFormat(Replace(response.data.sighting_date[1], "Z",
                                  <<"+", "0", "0", ":", "0", "0">>)) = None )
       => (response.code = 400 /\ response.id = None)

----------------------------------------------------------------------------
(* Claim about GET /api/stats, checked under SpecStats *)

\* C7: GET /api/stats is answered 200 with the counts of the store as it is;
\* success_rate (in hundredths of a percent) is 0 when there is no lost bird,
\* equals total_reunited / max(total_lost, 1) * 100 and lies in 0..100.
C7_Stats ==
    response.op = "get_statistics" =>
        /\ response.code = 200
        /\ response.total_lost = Cardinality(lost_birds)
        /\ response.total_found = Cardinality(found_birds)
        /\ response.total_sightings = Cardinality(sightings)
        /\ response.total_reunited =
              Cardinality({b \in lost_birds : b.status = "reunited"})
        /\ response.total_reunited <= response.total_lost
        /\ response.total_lost = 0 => response.success_rate = 0
        /\ response.success_rate * (IF response.total_lost = 0 THEN 1
                                    ELSE response.total_lost)
              = response.total_reunited * 10000
        /\ response.success_rate \in 0..10000

\* The statistics of a store without lost birds, and of one with some.
C7_Witness ==
    /\ response.op = "get_statistics"
    /\ response.code = 200
    /\ response.total_lost = 0
    /\ response.success_rate = 0
    /\ response.total_found > 0

----------------------------------------------------------------------------
(* Claims about GET /api/lost-birds, checked under SpecPaging and SpecList *)

RECURSIVE Concatenate(_)
Concatenate(responses) ==
    IF responses = <<>> THEN <<>>
    ELSE Head(responses).birds \o Concatenate(Tail(responses))

\* C5: the pages 1..pages of one listing, read from an unchanged store, are
\* all answered 200 and their items in order are the rows the filters select,
\* each once, by descending created_at.
C5_PagesConcatenate ==
    ( /\ scan # None
      /\ scan[1].store = lost_birds
      /\ scan[1].responses[1].code = 200
      /\ Len(scan[1].responses) = scan[1].responses[1].pages )
    => /\ \A i \in DOMAIN scan[1].responses : scan[1].responses[i].code = 200
       /\ \E order \in Orderings(Query(scan[1].responses[1].args)) :
             Concatenate(scan[1].responses) = [i \in DOMAIN order |-> order[i].id]

\* C6: a listing request is never answered ZeroDivisionError, and with lat,
\* lng and a radius > 0 given, every stored lost bird of the queried status
\* (and matching the search, if one is given) that lies at exactly (lat, lng)
\* is among the rows selected.
C6_ExactPoint ==
    response.op = "get_lost_birds" =>
        /\ response.error # "ZeroDivisionError"
        /\ LET a == response.args
               status == IF a.status = None THEN "lost" ELSE a.status[1]
               radius == IF a.radius = None THEN DefaultRadius ELSE a.radius[1]
           IN (a.lat # None /\ a.lng # None /\ radius > 0) =>
                 \A b \in lost_birds :
                    ( /\ b.status = status
                      /\ b.last_seen_lat = a.lat
                      /\ b.last_seen_lng = a.lng
                      /\ (~TruthyText(a.search)
                          \/ Contains(b.name, a.search[1])
                          \/ Contains(b.description, a.search[1])
                          \/ Contains(b.last_seen_location, a.search[1])) )
                    => b.id \in response.query

\* A listing around a point of latitude 0 selects the bird at that point.
C6_Witness ==
    /\ response.op = "get_lost_birds"
    /\ response.code = 200
    /\ response.args.lat = Some(0)
    /\ response.args.lng = Some(1)
    /\ \E b \in lost_birds :
          /\ b.last_seen_lat = Some(0)
          /\ b.last_seen_lng = Some(1)
          /\ b.id \in response.query
          /\ \E i \in DOMAIN response.birds : response.birds[i] = b.id

----------------------------------------------------------------------------
(* Claim about POST /api/upload, checked under SpecUpload *)

\* The name ends in a dot followed by png, jpg, jpeg or gif in any case.
HasAllowedExtension(filename) ==
    \E i \in DOMAIN filename :
        /\ filename[i] = "."
        /\ \A j \in DOMAIN filename : j > i => filename[j] # "."
        /\ LowerName(SubSeq(filename, i + 1, Len(filename))) \in
              {<<"p", "n", "g">>, <<"j", "p", "g">>, <<"j", "p", "e", "g">>,
               <<"g", "i", "f">>}

C8_RejectedInv ==
    ( /\ response.op = "upload_file"
      /\ response.request # None
      /\ ~HasAllowedExtension(response.request[1].filename) )
    => (response.code = 400 /\ response.filename = None)

C8_Written ==
    uploads' # uploads =>
        /\ response'.op = "upload_file"
        /\ response'.request # None
        /\ HasAllowedExtension(response'.request[1].filename)

\* C8: an upload whose file name has no final extension among png, jpg, jpeg,
\* gif (in any case) is answered 400, and only an upload whose name has one
\* changes the files of the upload directory.
C8_Rejected == []C8_RejectedInv /\ [][C8_Written]_vars

\* virus.exe is rejected while an earlier upload stays in the directory.
C8_Witness ==
    /\ response.op = "upload_file"
    /\ response.request # None
    /\ response.request[1].filename = VirusExe
    /\ response.code = 400
    /\ response.error = "Invalid file type"
    /\ uploads # {}

----------------------------------------------------------------------------
(* Claim about LostBird.status, checked under SpecStatus *)

LostBirdStatuses == {"lost", "found", "reunited"}

\* The place of a status on the way lost -> found -> reunited.
StatusRank(status) ==
    IF status = "lost" THEN 1 ELSE IF status = "found" THEN 2 ELSE 3

C11_StatusInv == \A b \in lost_birds : b.status \in LostBirdStatuses

C11_StatusStep ==
    \A b \in lost_birds' :
        IF \E a \in lost_birds : a.id = b.id
        THEN \A a \in lost_birds :
                a.id = b.id => /\ b.status \in LostBirdStatuses
                               /\ StatusRank(a.status) <= StatusRank(b.status)
        ELSE b.status = "lost"

\* C11: every stored lost bird has a status among lost, found, reunited; a row
\* is created with status lost, whatever status the request body carries; and
\* no request moves the status of a stored row back along
\* lost -> found -> reunited or out of that set.
C11_Status == []C11_StatusInv /\ [][C11_StatusStep]_vars

\* A body that asks for status reunited is stored as a lost bird, after other
\* requests were served, and the row stored before it is still a lost bird.
C11_Witness ==
    /\ response.op = "create_lost_bird"
    /\ response.code = 201
    /\ "status" \in DOMAIN response.data
    /\ response.data.status = Some("reunited")
    /\ \E b \in lost_birds : b.id = response.id[1] /\ b.status = "lost"
    /\ \E a \in lost_birds : a.id # response.id[1] /\ a.status = "lost"
    /\ sightings # {}

----------------------------------------------------------------------------
(* Claim about SightingReport.confidence_level, checked under SpecConfidence *)

ConfidenceLevels == 1..10

\* C12 as stated: every stored sighting has an integer confidence_level in
\* 1..10; a request that omits confidence_level stores 5, and a request that
\* supplies null or a value outside 1..10 stores no row that carries it.
C12_ConfidenceInRange ==
    /\ \A s \in sightings :
          /\ s.confidence_level # None
          /\ s.confidence_level[1] \in ConfidenceLevels
    /\ ( /\ response.op = "create_sighting"
         /\ response.code = 201
         /\ "confidence_level" \notin DOMAIN response.data )
       => \E s \in sightings :
             s.id = response.id[1] /\ s.confidence_level = Some(5)
    /\ ( /\ response.op = "create_sighting"
         /\ response.id # None
         /\ "confidence_level" \in DOMAIN response.data )
       => \/ /\ response.data.confidence_level # None
             /\ response.data.confidence_level[1] \in ConfidenceLevels
          \/ \A s \in sightings :
                s.id = response.id[1] =>
                    s.confidence_level # response.data.confidence_level

====
